---- MODULE Spec2Model ----
(***************************************************************************)
(* Users, passwords and management of same (shared/users.py): the user     *)
(* directory kept under settings key 'usr' and the HOTP / TOTP / HMAC      *)
(* check of Users.auth_okay.                                               *)
(*                                                                         *)
(* Byte strings are sequences of 0..255; text strings are sequences of     *)
(* one-character strings.  Python's None is the empty tuple <<>>.          *)
(***************************************************************************)
EXTENDS Integers, Sequences, FiniteSets, TLC

(* ---------------------------------------------------------------- bounds *)

\* how many slots around the epoch floor the supplied totp_time ranges over
TimeSpan == 1

\* the last counter beyond the HOTP window whose code is offered as a token
CodeSpan == 10

(* ------------------------------------------------------------- constants *)

\* from public_constants import USER_AUTH_TOTP, USER_AUTH_HOTP, USER_AUTH_HMAC
USER_AUTH_TOTP == 1
USER_AUTH_HOTP == 2
USER_AUTH_HMAC == 3

\* from public_constants import MAX_USERNAME_LEN, PBKDF2_ITER_COUNT
MAX_USERNAME_LEN == 16
PBKDF2_ITER_COUNT == 2500

MAX_NUMBER_USERS == 30

\* "above is time when I wrote the code"
TOTP_FLOOR == 52622505

(* --------------------------------------------------------------- helpers *)

\* the one element of a singleton set; Only({e(x) : x \in {v}}) is e(v) with v
\* evaluated once
Only(S) == CHOOSE x \in S : TRUE

\* the sum of the first n bytes of b
RECURSIVE SumTo(_, _)
SumTo(b, n) == IF n = 0 THEN 0 ELSE b[n] + SumTo(b, n - 1)

SumBytes(b) == Only({SumTo(v, Len(v)) : v \in {b}})

B32_ALPHABET ==
    << "A", "B", "C", "D", "E", "F", "G", "H", "I", "J", "K", "L", "M", "N", "O", "P",
       "Q", "R", "S", "T", "U", "V", "W", "X", "Y", "Z", "2", "3", "4", "5", "6", "7" >>

B32_INDEX ==
    [ch \in {B32_ALPHABET[i] : i \in 1..32} |-> (CHOOSE i \in 1..32 : B32_ALPHABET[i] = ch) - 1]

\* byte k of b, zero beyond its end
ByteAt(b, k) == IF k <= Len(b) THEN b[k] ELSE 0

\* the value of the j-th (1..8) 5-bit group of the 5-byte block starting
\* at byte p of b
B32Group(b, p, j) ==
    CASE j = 1 -> ByteAt(b, p) \div 8
      [] j = 2 -> (ByteAt(b, p) % 8) * 4 + ByteAt(b, p + 1) \div 64
      [] j = 3 -> (ByteAt(b, p + 1) \div 2) % 32
      [] j = 4 -> (ByteAt(b, p + 1) % 2) * 16 + ByteAt(b, p + 2) \div 16
      [] j = 5 -> (ByteAt(b, p + 2) % 16) * 2 + ByteAt(b, p + 3) \div 128
      [] j = 6 -> (ByteAt(b, p + 3) \div 4) % 32
      [] j = 7 -> (ByteAt(b, p + 3) % 4) * 8 + ByteAt(b, p + 4) \div 32
      [] j = 8 -> ByteAt(b, p + 4) % 32

\* tcc.codecs.b32_encode: bytes -> str, 5 bits per character, 8 characters
\* per 5 bytes, the last group padded with zero bits, no '=' padding
b32encode(b) ==
    [k \in 1..((8 * Len(b) + 4) \div 5) |->
        B32_ALPHABET[B32Group(b, 5 * ((k - 1) \div 8) + 1, ((k - 1) % 8) + 1) + 1]]

\* the value of character k of s, zero beyond its end
ValueAt(s, k) == IF k <= Len(s) THEN B32_INDEX[s[k]] ELSE 0

\* the j-th (1..5) byte of the 8-character block starting at character p of s
B32Byte(s, p, j) ==
    CASE j = 1 -> ValueAt(s, p) * 8 + ValueAt(s, p + 1) \div 4
      [] j = 2 -> (ValueAt(s, p + 1) % 4) * 64 + ValueAt(s, p + 2) * 2 + ValueAt(s, p + 3) \div 16
      [] j = 3 -> (ValueAt(s, p + 3) % 16) * 16 + ValueAt(s, p + 4) \div 2
      [] j = 4 -> (ValueAt(s, p + 4) % 2) * 128 + ValueAt(s, p + 5) * 4 + ValueAt(s, p + 6) \div 8
      [] j = 5 -> (ValueAt(s, p + 6) % 8) * 32 + ValueAt(s, p + 7)

\* tcc.codecs.b32_decode: str -> bytes, 5 bytes per 8 characters, the
\* trailing partial byte dropped
b32decode(s) ==
    [k \in 1..((5 * Len(s)) \div 8) |->
        B32Byte(s, 8 * ((k - 1) \div 5) + 1, ((k - 1) % 5) + 1)]

\* tcc.sha256(msg).digest(): 32 bytes, a stand-in that is a fixed function
\* of the message
sha256(msg) == Only({[i \in 1..32 |-> (s * i + i * i) % 256] : s \in {SumBytes(msg)}})

\* tcc.pbkdf2('hmac-sha256', password, salt, iterations).key(): 32 bytes,
\* a stand-in that is a fixed function of its three arguments
pbkdf2_key(password, salt, iterations) ==
    Only({[i \in 1..32 |-> (p * (i + 1) + s + iterations * i) % 256] :
            p \in {SumBytes(password)}, s \in {SumBytes(salt)}})

\* the characters the module handles and their ASCII codes
ASCII ==
    [ch \in {"0", "1", "2", "3", "4", "5", "6", "7", "8", "9"} |->
        48 + (CHOOSE d \in 0..9 : <<"0", "1", "2", "3", "4", "5", "6", "7", "8", "9">>[d + 1] = ch)]
      @@ [ch \in {B32_ALPHABET[i] : i \in 1..26} |-> 65 + B32_INDEX[ch]]
      @@ [ch \in {"_"} |-> 95]
      @@ [ch \in {"a", "l", "x"} |-> CASE ch = "a" -> 97 [] ch = "l" -> 108 [] ch = "x" -> 120]

\* str.encode('ascii')
encode_ascii(s) == [i \in 1..Len(s) |-> ASCII[s[i]]]

\* ustruct.pack('>Q', counter): 8 bytes, big endian (counters stay below 2^31,
\* so the four high bytes are zero)
pack_Q(counter) ==
    [i \in 1..8 |-> IF i <= 4 THEN 0 ELSE (counter \div (256 ^ (8 - i))) % 256]

\* SHA-1 stands in as a small quadratic residue spread over 20 bytes, so that
\* distinct messages can give the same digest, as distinct counters can give
\* the same 6-digit code
SHA1_DIGEST ==
    [s \in 0..60 |-> [i \in 1..20 |-> (s * (i + 2) * (i + 5) + 11 * i + s * s) % 256]]

\* hmac.new(key, msg, tcc.sha1).digest(): 20 bytes, a fixed function of key and
\* message
hmac_sha1(key, msg) ==
    LET x == SumBytes(key) + SumBytes(msg)
    IN  SHA1_DIGEST[(x * x) % 61]

SHA256_DIGEST == [s \in 0..250 |-> [i \in 1..32 |-> (s * (i + 1) + 7 * i) % 256]]

\* hmac.new(key, msg, tcc.sha256).digest(): 32 bytes, stand-in as above
hmac_sha256(key, msg) ==
    LET x == SumBytes(key) + 3 * SumBytes(msg)
    IN  SHA256_DIGEST[(x * x) % 251]

\* '%06d' % n
DIGITS == <<"0", "1", "2", "3", "4", "5", "6", "7", "8", "9">>

Fmt06d(n) == [i \in 1..6 |-> DIGITS[((n \div (10 ^ (6 - i))) % 10) + 1]]

\* unpack('>I', hmac_digest[o:o+4])[0] & 0x7fffffff, o the low nibble of the
\* last byte
truncate(hmac_digest) ==
    LET o == hmac_digest[20] % 16
    IN  (hmac_digest[o + 1] % 128) * 16777216 + hmac_digest[o + 2] * 65536
          + hmac_digest[o + 3] * 256 + hmac_digest[o + 4]

calc_hotp(secret, counter) ==
    LET msg == pack_Q(counter)
    IN  Only({Fmt06d(token % 1000000) :
                token \in {truncate(hmac_digest) : hmac_digest \in {hmac_sha1(secret, msg)}}})

(* ---------------------------------------------------------------- inputs *)

\* usernames offered to create / delete / auth_okay
NAME_AL   == <<"a", "l">>
NAME_MAX  == [i \in 1..MAX_USERNAME_LEN |-> "a"]
NAME_LONG == [i \in 1..(MAX_USERNAME_LEN + 1) |-> "a"]
NAME_ONE  == <<"a">>
NAME_NONE == <<>>
NAME_RES  == <<"_", "x">>

NameInputs == {NAME_AL, NAME_MAX, NAME_LONG, NAME_ONE, NAME_NONE, NAME_RES}

\* secrets a caller supplies: the docstring's b'abcdefghij', a 20-byte and a
\* 32-byte one, and one of a length no mode takes
SECRET_10 == <<97, 98, 99, 100, 101, 102, 103, 104, 105, 106>>
SECRET_20 == [i \in 1..20 |-> 10 * i]
SECRET_32 == [i \in 1..32 |-> i]
SECRET_5  == <<1, 2, 3, 4, 5>>

\* what ckcc.rng_bytes may leave in the 10-byte buffer
RngOutcomes == {<<1, 1, 1, 1, 1, 1, 1, 1, 1, 3>>, <<1, 2, 3, 4, 5, 6, 7, 8, 9, 11>>}

\* (username, auth_mode, secret) offered to create: for NAME_AL a picked or
\* a supplied secret in each mode and the combinations create refuses, for
\* the other names one request each
CreateInputs ==
    ({NAME_AL} \X {USER_AUTH_HOTP, USER_AUTH_HMAC} \X {<<>>})
      \cup ({NAME_AL} \X {USER_AUTH_TOTP} \X {SECRET_10, SECRET_20, SECRET_32})
      \cup ({NAME_AL} \X {USER_AUTH_HMAC} \X {SECRET_32, SECRET_10})
      \cup ({NAME_AL} \X {USER_AUTH_HOTP, 0} \X {SECRET_5})
      \cup ((NameInputs \ {NAME_AL}) \X {USER_AUTH_HOTP} \X {SECRET_10})

\* usernames offered to delete
DeleteInputs == {NAME_AL, NAME_MAX, NAME_RES}

\* totp_time: None is <<>>, a time t is <<t>>
TimeInputs == {<<>>} \cup {<<TOTP_FLOOR + d>> : d \in (-1)..TimeSpan}

\* psbt_hash: None is <<>>
HASH_1 == [i \in 1..32 |-> 2 * i]
HashInputs == {<<>>, HASH_1}

\* counters whose codes are offered to a HOTP user as tokens: the bootstrap
\* counter, the two ends of a fresh user's window and the counters beyond it
HotpCounters == {0, 1, 9} \cup (10..CodeSpan)

\* slots whose codes are offered to a TOTP user as tokens: those around the
\* epoch floor
TotpSlots == {TOTP_FLOOR + d : d \in (-2)..TimeSpan}

TOKEN_SHORT  == <<49, 50, 51, 52, 53>>
TOKEN_ALPHA  == <<49, 50, 97, 52, 53, 54>>
TOKEN_LONG   == <<49, 50, 51, 52, 53, 54, 55>>

(* ----------------------------------------------------------------- state *)

VARIABLES
    settings,   \* the dict under settings key 'usr' (empty when unset):
                \* username -> <<auth_mode, base32(secret), last_counter>>
    call,       \* the last call: its arguments, what it returned or raised
    accepted    \* per username, <<c>> for the counter c matched by the last
                \* successful OTP auth_okay since the user was created

vars == <<settings, call, accepted>>

\* Users.get: settings.get(KEY) or dict()
get == settings

\* Users.lookup: UserInfo(*rv) if rv else None; None is <<>>
lookup(username) == IF username \in DOMAIN get THEN get[username] ELSE <<>>

\* Users.valid_username
valid_username(username) == username \in DOMAIN get

\* Users.list: the usernames (the caller sorts them)
list == DOMAIN get

\* the fields of UserInfo
auth_mode_of(info)    == info[1]
secret_of(info)       == info[2]
last_counter_of(info) == info[3]

\* a save that writes a dict holding the new record alone
DictPutAlone(u, username, rec) == [n \in {username} |-> rec]

\* dict item assignment u[username] = rec
DictPut(u, username, rec) ==
    [n \in DOMAIN u \cup {username} |-> IF n = username THEN rec ELSE u[n]]

\* a pop that empties the dict when the key is there
DictPopAll(u, username) == IF username \in DOMAIN u THEN <<>> ELSE u

\* u.pop(username, None)
DictPop(u, username) == [n \in DOMAIN u \ {username} |-> u[n]]

NoCall ==
    [op |-> "none", username |-> <<>>, auth_mode |-> 0, secret |-> <<>>,
     token |-> <<>>, totp_time |-> <<>>, psbt_hash |-> <<>>,
     result |-> "", picked |-> <<>>, exc |-> "", matched |-> <<>>,
     u |-> <<>>, changed |-> FALSE]

Init ==
    /\ settings = <<>>
    /\ call = NoCall
    /\ accepted = [n \in NameInputs |-> <<>>]

(* ------------------------------------------------------------ Users.create *)

SERIAL_NUMBER == <<"4", "A", "2">>
PEPPER == <<112, 101, 112, 112, 101, 114>>

\* calc_hmac_key: a 32-byte key from the text password, PBKDF2_ITER_COUNT and
\* the device serial number as salt
calc_hmac_key(text_password) ==
    LET salt == sha256(PEPPER \o encode_ascii(SERIAL_NUMBER))
    IN  pbkdf2_key(text_password, salt, PBKDF2_ITER_COUNT)

\* Users.pick_secret, with rnd what ckcc.rng_bytes put in the buffer:
\* <<binary secret, text for the new user to see>>
pick_secret(auth_mode, rnd) ==
    LET picked == b32encode(rnd)
    IN  IF auth_mode = USER_AUTH_HMAC
        THEN <<calc_hmac_key(encode_ascii(picked)), picked>>
        ELSE <<rnd, picked>>

\* a length check that takes any secret of 5 bytes or more
secret_len_any(auth_mode, secret) == Len(secret) >= 5

\* the length a supplied secret must have
secret_len_ok(auth_mode, secret) ==
    IF auth_mode = USER_AUTH_HMAC
    THEN Len(secret) = 32
    ELSE Len(secret) \in {10, 20}

\* a length check that lets one character more through
username_len_loose(username) ==
    1 < Len(username) /\ Len(username) <= MAX_USERNAME_LEN + 1

\* 1 < len(username) <= MAX_USERNAME_LEN
username_len_ok(username) ==
    1 < Len(username) /\ Len(username) <= MAX_USERNAME_LEN

\* a lookup that finds nobody, so that create on a name on file is an update
existing_none(username) == <<>>

\* existing = cls.lookup(username)
existing(username) == lookup(username)

\* a cap that is checked one user late: len(u) <= MAX_NUMBER_USERS
has_room_late(u) == Cardinality(DOMAIN u) <= MAX_NUMBER_USERS

\* len(u) < MAX_NUMBER_USERS
has_room(u) == Cardinality(DOMAIN u) < MAX_NUMBER_USERS

\* the asserts of Users.create in the order the code makes them: the message
\* of the first that fails, "" when none does
create_asserts(username, auth_mode, secret) ==
    IF auth_mode \notin {USER_AUTH_TOTP, USER_AUTH_HOTP, USER_AUTH_HMAC}
    THEN "AssertionError"
    ELSE IF ~username_len_ok(username)
    THEN "AssertionError: badlen"
    ELSE IF username[1] = "_"
    THEN "AssertionError: reserved"
    ELSE IF existing(username) # <<>>
    THEN "AssertionError: exists"
    ELSE IF secret # <<>> /\ ~secret_len_ok(auth_mode, secret)
    THEN "AssertionError"
    ELSE IF ~has_room(get)
    THEN "AssertionError: too many"
    ELSE ""

create(username, auth_mode, secret, rnd) ==
    \E exc \in {create_asserts(username, auth_mode, secret)} :
    \E pick \in {IF secret = <<>> THEN pick_secret(auth_mode, rnd) ELSE <<secret, <<>> >>} :
    LET stored == pick[1]
        picked == pick[2]
    IN  /\ call' = [NoCall EXCEPT !.op = "create", !.username = username,
                                  !.auth_mode = auth_mode, !.secret = secret,
                                  !.exc = exc,
                                  !.picked = IF exc = "" THEN picked ELSE <<>>]
        /\ IF exc = ""
           THEN /\ settings' = DictPut(get, username, <<auth_mode, b32encode(stored), 0>>)
                /\ accepted' = [accepted EXCEPT ![username] = <<>>]
           ELSE UNCHANGED <<settings, accepted>>

Create ==
    \E inp \in CreateInputs :
        IF inp[3] = <<>>
        THEN \E rnd \in RngOutcomes : create(inp[1], inp[2], inp[3], rnd)
        ELSE create(inp[1], inp[2], inp[3], <<>>)

(* ------------------------------------------------------------ Users.delete *)

delete(username) ==
    /\ call' = [NoCall EXCEPT !.op = "delete", !.username = username]
    /\ settings' = DictPop(get, username)
    /\ accepted' = [accepted EXCEPT ![username] = <<>>]

Delete == \E username \in DeleteInputs : delete(username)

(* --------------------------------------------------------- Users.auth_okay *)

ZERO_32 == [i \in 1..32 |-> 0]

\* a shape check that lets longer tokens through
token_shape_min(token) == Len(token) >= 6

\* len(token) != 6 is the whole shape check
token_shape_ok(token) == Len(token) = 6

\* a window one slot short: range(1, 9)
hotp_candidates_short(last_counter) ==
    [i \in 1..8 |-> last_counter + i] \o (IF last_counter = 0 THEN <<0>> ELSE <<>>)

\* [last_counter+i for i in range(1, 10)], then 0 when last_counter is 0
hotp_candidates(last_counter) ==
    [i \in 1..9 |-> last_counter + i] \o (IF last_counter = 0 THEN <<0>> ELSE <<>>)

\* a filter that keeps the slot already used: (totp_time-i) >= last_counter
totp_candidates_inclusive(totp_time, last_counter) ==
    SelectSeq([i \in 1..3 |-> totp_time - (i - 1)], LAMBDA c : c >= last_counter)

\* [(totp_time-i) for i in range(0, 3) if (totp_time-i) > last_counter]
totp_candidates(totp_time, last_counter) ==
    SelectSeq([i \in 1..3 |-> totp_time - (i - 1)], LAMBDA c : c > last_counter)

\* the asserts at the top of calc_hotp
calc_hotp_asserts(secret, counter) == Len(secret) >= 10 /\ counter >= 0

\* a loop that goes on after a match, so that the last match wins
RECURSIVE match_loop_last(_, _, _, _)
match_loop_last(secret, candidates, token, i) ==
    IF i > Len(candidates)
    THEN [kind |-> "exhausted", c |-> 0]
    ELSE IF ~calc_hotp_asserts(secret, candidates[i])
    THEN [kind |-> "assert", c |-> candidates[i]]
    ELSE Only({IF rest.kind = "match"
               THEN rest
               ELSE IF encode_ascii(calc_hotp(secret, candidates[i])) = token
               THEN [kind |-> "match", c |-> candidates[i]]
               ELSE rest :
                 rest \in {match_loop_last(secret, candidates, token, i + 1)}})

\* for c in candidates: the first candidate whose code is the token
RECURSIVE match_loop(_, _, _, _)
match_loop(secret, candidates, token, i) ==
    IF i > Len(candidates)
    THEN [kind |-> "exhausted", c |-> 0]
    ELSE IF ~calc_hotp_asserts(secret, candidates[i])
    THEN [kind |-> "assert", c |-> candidates[i]]
    ELSE IF encode_ascii(calc_hotp(secret, candidates[i])) = token
    THEN [kind |-> "match", c |-> candidates[i]]
    ELSE match_loop(secret, candidates, token, i + 1)

Returns(result) ==
    [result |-> result, exc |-> "", matched |-> <<>>, u |-> <<>>, changed |-> FALSE]

Raises(exc) ==
    [result |-> "", exc |-> exc, matched |-> <<>>, u |-> <<>>, changed |-> FALSE]

\* the candidates loop and what follows it; u is the UserInfo looked up
\* u = list(u); u[2] = c; settings.changed(); return ''
Matched(u, c) ==
    [result |-> "", exc |-> "", matched |-> <<c>>, u |-> [u EXCEPT ![3] = c],
     changed |-> TRUE]

otp_check(u, secret, candidates, token) ==
    Only({IF m.kind = "match"
          THEN Matched(u, m.c)
          ELSE IF m.kind = "assert"
          THEN Raises("AssertionError")
          ELSE Returns("mismatch") :
            m \in {match_loop(secret, candidates, token, 1)}})

\* an HMAC branch that signs 32 zero bytes whatever psbt_hash is
hmac_check_zero_hash(secret, token, psbt_hash) ==
    LET expect == hmac_sha256(secret, ZERO_32)
    IN  IF expect # token THEN Returns("mismatch") ELSE Returns("")

\* the HMAC branch
hmac_check(secret, token, psbt_hash) ==
    LET expect == hmac_sha256(secret, IF psbt_hash # <<>> THEN psbt_hash ELSE ZERO_32)
    IN  IF expect # token THEN Returns("mismatch") ELSE Returns("")

\* the TOTP branch: totp_time None (<<>>) cannot be compared with an int
totp_check(u, secret, token, totp_time) ==
    IF totp_time = <<>>
    THEN Raises("TypeError")
    ELSE IF totp_time[1] < TOTP_FLOOR
    THEN Returns("range")
    ELSE LET candidates == totp_candidates(totp_time[1], last_counter_of(u))
         IN  IF candidates = <<>>
             THEN Returns("replay")
             ELSE otp_check(u, secret, candidates, token)

\* a body that makes the epoch-floor check before it looks at the mode
auth_known_timed(u, secret, token, totp_time, psbt_hash) ==
    IF auth_mode_of(u) = USER_AUTH_HMAC
    THEN hmac_check(secret, token, psbt_hash)
    ELSE IF ~token_shape_ok(token)
    THEN Returns("expect otp")
    ELSE IF totp_time # <<>> /\ totp_time[1] < TOTP_FLOOR
    THEN Returns("range")
    ELSE IF auth_mode_of(u) = USER_AUTH_HOTP
    THEN otp_check(u, secret, hotp_candidates(last_counter_of(u)), token)
    ELSE totp_check(u, secret, token, totp_time)

\* what Users.auth_okay returns or raises, and its local u after the loop
\* the body of Users.auth_okay once the user is found and its secret decoded
auth_known(u, secret, token, totp_time, psbt_hash) ==
    IF auth_mode_of(u) = USER_AUTH_HMAC
    THEN hmac_check(secret, token, psbt_hash)
    ELSE IF ~token_shape_ok(token)
    THEN Returns("expect otp")
    ELSE IF auth_mode_of(u) = USER_AUTH_HOTP
    THEN otp_check(u, secret, hotp_candidates(last_counter_of(u)), token)
    ELSE totp_check(u, secret, token, totp_time)

\* an auth_okay that looks at the token's length before it looks the user up
auth_outcome_shape_first(username, token, totp_time, psbt_hash) ==
    LET u == lookup(username)
    IN  IF ~token_shape_ok(token) /\ (u = <<>> \/ auth_mode_of(u) # USER_AUTH_HMAC)
        THEN Returns("expect otp")
        ELSE IF u = <<>>
        THEN Returns("unknown")
        ELSE Only({auth_known(u, secret, token, totp_time, psbt_hash) :
                     secret \in {b32decode(secret_of(u))}})

auth_outcome(username, token, totp_time, psbt_hash) ==
    LET u == lookup(username)
    IN  IF u = <<>>
        THEN Returns("unknown")
        ELSE Only({auth_known(u, secret, token, totp_time, psbt_hash) :
                     secret \in {b32decode(secret_of(u))}})

\* a lock-out: a call that returns 'mismatch' takes the user off file
settings_after_auth_lockout(username, r) ==
    IF r.result = "mismatch" THEN DictPop(settings, username) ELSE settings

\* what the call leaves under settings key 'usr': on a match the code updates
\* list(u), a copy of the looked-up record, and calls settings.changed(); the
\* dict in settings is not written
settings_after_auth(username, r) == settings

auth_okay(username, token, totp_time, psbt_hash) ==
    \E r \in {auth_outcome(username, token, totp_time, psbt_hash)} :
        /\ call' = [NoCall EXCEPT !.op = "auth_okay", !.username = username,
                                  !.token = token, !.totp_time = totp_time,
                                  !.psbt_hash = psbt_hash, !.result = r.result,
                                  !.exc = r.exc, !.matched = r.matched,
                                  !.u = r.u, !.changed = r.changed]
        /\ settings' = settings_after_auth(username, r)
        /\ accepted' = IF r.matched # <<>>
                       THEN [accepted EXCEPT ![username] = r.matched]
                       ELSE accepted

\* usernames presented to auth_okay
AuthNames == {NAME_AL}

\* tokens presented for a username: malformed and wrong ones and, for a user
\* on file, what its mode compares the token with: the codes of its secret
\* or its HMAC digests
TokenInputs(username) ==
    {TOKEN_SHORT, TOKEN_ALPHA, TOKEN_LONG}
      \cup (IF lookup(username) = <<>>
            THEN {}
            ELSE UNION {CASE auth_mode_of(lookup(username)) = USER_AUTH_HMAC ->
                               {hmac_sha256(secret, IF h # <<>> THEN h ELSE ZERO_32) :
                                  h \in HashInputs}
                          [] auth_mode_of(lookup(username)) = USER_AUTH_HOTP ->
                               {encode_ascii(calc_hotp(secret, c)) : c \in HotpCounters}
                          [] OTHER ->
                               {encode_ascii(calc_hotp(secret, c)) : c \in TotpSlots} :
                        secret \in {b32decode(secret_of(lookup(username)))}})

\* (totp_time, psbt_hash) pairs presented
TimeHashInputs == (TimeInputs \X {<<>>}) \cup ({<<>>} \X (HashInputs \ {<<>>}))

AuthOkay ==
    \E username \in AuthNames :
        \E token \in TokenInputs(username) :
            \E th \in TimeHashInputs :
                auth_okay(username, token, th[1], th[2])

Next == Create \/ Delete \/ AuthOkay

Spec == Init /\ [][Next]_vars

(* ------------------------------------------- auth_okay on a stored record *)

\* last_counter values a record under settings key 'usr' is read back with
StoredCounters == {0, 1} \cup {TOTP_FLOOR + d : d \in (-1)..TimeSpan}

\* the settings auth_okay may find: one OTP user, its record as create stores
\* it but for last_counter
InitStored ==
    /\ settings \in
         {[n \in {NAME_AL} |-> <<mode, b32encode(secret), last_counter>>] :
            mode \in {USER_AUTH_HOTP, USER_AUTH_TOTP},
            secret \in {SECRET_10, SECRET_20},
            last_counter \in StoredCounters}
    /\ call = NoCall
    /\ accepted = [n \in NameInputs |-> <<>>]

NextStored == AuthOkay

SpecStored == InitStored /\ [][NextStored]_vars

\* a record whose last_counter is not 0: a used HOTP counter or TOTP slot
InitRecord ==
    /\ settings \in
         {[n \in {NAME_AL} |-> <<mode, b32encode(SECRET_10), last_counter>>] :
            mode \in {USER_AUTH_HOTP, USER_AUTH_TOTP},
            last_counter \in {1, TOTP_FLOOR}}
    /\ call = NoCall
    /\ accepted = [n \in NameInputs |-> <<>>]

\* the whole of class Users on such a record
SpecRecord == InitRecord /\ [][Next]_vars

(* ------------------------------------------------- a directory nearly full *)

\* names of users already on file, none of them offered to create or delete
FillNames == {<<"u", B32_ALPHABET[i]>> : i \in 1..(MAX_NUMBER_USERS - 1)}

\* the directory after MAX_NUMBER_USERS - 1 calls of create, each with a
\* supplied secret
InitFull ==
    /\ settings = [n \in FillNames |-> <<USER_AUTH_HOTP, b32encode(SECRET_10), 0>>]
    /\ call = NoCall
    /\ accepted = [n \in NameInputs |-> <<>>]

SpecFull == InitFull /\ [][Next]_vars

(* ---------------------------------------------------------------- claims *)

\* the last call was auth_okay and returned (did not raise)
AuthReturned == call.op = "auth_okay" /\ call.exc = ""

\* the last call was auth_okay and returned '' (ok)
AuthSucceeded == AuthReturned /\ call.result = ""

\* the last call was auth_okay on a user on file in the given mode
AuthOn(mode) ==
    /\ call.op = "auth_okay"
    /\ call.username \in DOMAIN settings
    /\ auth_mode_of(settings[call.username]) = mode

\* the code of counter c under the secret stored for username, as a token
CodeOf(username, c) ==
    encode_ascii(calc_hotp(b32decode(secret_of(settings[username])), c))

\* C1: after auth_okay succeeds for a HOTP or TOTP user by matching candidate
\* c, the record lookup(username) reads back has last_counter = c.
C1_LastCounterPersisted ==
    (AuthSucceeded /\ call.matched # <<>>)
        => last_counter_of(lookup(call.username)) = call.matched[1]

\* the step is a successful auth_okay, matching a candidate, on a user in the
\* given mode
OtpSuccessStep(mode) ==
    /\ call'.op = "auth_okay" /\ call'.exc = "" /\ call'.result = ""
    /\ call'.matched # <<>>
    /\ call'.username \in DOMAIN settings
    /\ auth_mode_of(settings[call'.username]) = mode

\* C2: for a HOTP user the counters accepted by successful auth_okay calls are
\* strictly increasing: a success after an earlier one matches a counter
\* above the one last accepted, so the code of an accepted or smaller counter
\* never succeeds again.
C2_HotpAcceptedIncreasing ==
    [][(OtpSuccessStep(USER_AUTH_HOTP) /\ accepted[call'.username] # <<>>)
          => call'.matched[1] > accepted[call'.username][1]]_vars

\* C3: a HOTP user accepts counter 0 only as its first success: once any
\* auth_okay has succeeded, no later one matches counter 0.
C3_BootstrapOnce ==
    [][(OtpSuccessStep(USER_AUTH_HOTP) /\ call'.matched = <<0>>)
          => accepted[call'.username] = <<>>]_vars

\* the slot last accepted for a TOTP user, its stored last_counter before any
LastSlot(username) ==
    IF accepted[username] # <<>>
    THEN accepted[username][1]
    ELSE last_counter_of(settings[username])

\* C4: for a TOTP user whose last accepted slot is T and a totp_time at or
\* above the floor, a token that is the code of slot T+1 or T+2 succeeds when
\* that slot is one of totp_time, totp_time-1, totp_time-2, and a token that
\* succeeds is the code of one of these slots above T.
C4_TotpBackwardTolerance ==
    [][(/\ call'.op = "auth_okay"
        /\ call'.username \in DOMAIN settings
        /\ auth_mode_of(settings[call'.username]) = USER_AUTH_TOTP
        /\ Len(call'.token) = 6
        /\ call'.totp_time # <<>>)
          => LET T      == LastSlot(call'.username)
                 tv     == call'.totp_time[1]
                 window == {tv, tv - 1, tv - 2}
                 ok     == call'.exc = "" /\ call'.result = ""
             IN  /\ (tv >= TOTP_FLOOR
                       /\ \E c \in {T + 1, T + 2} \cap window :
                            CodeOf(call'.username, c) = call'.token)
                      => ok
                 /\ ok => \E c \in window :
                            c > T /\ CodeOf(call'.username, c) = call'.token]_vars

\* C5: for an HMAC user auth_okay returns '' exactly when the token is
\* HMAC-SHA256(secret, psbt_hash), an absent psbt_hash standing for 32 zero
\* bytes, and 'mismatch' otherwise; it matches no counter, and every HMAC
\* record keeps last_counter 0.
C5_HmacNeverAdvances ==
    /\ \A n \in DOMAIN settings :
          auth_mode_of(settings[n]) = USER_AUTH_HMAC => last_counter_of(settings[n]) = 0
    /\ AuthOn(USER_AUTH_HMAC) =>
          LET secret == b32decode(secret_of(settings[call.username]))
              msg    == IF call.psbt_hash = <<>> THEN ZERO_32 ELSE call.psbt_hash
          IN  /\ call.exc = ""
              /\ call.matched = <<>>
              /\ call.result = (IF call.token = hmac_sha256(secret, msg) THEN "" ELSE "mismatch")

C5_Witness ==
    /\ AuthOn(USER_AUTH_HMAC) /\ AuthSucceeded
    /\ call.psbt_hash = <<>>
    /\ last_counter_of(settings[call.username]) = 0

\* C6: across an auth_okay call a user's last_counter never decreases, and a
\* successful call for a TOTP user leaves it at a slot strictly greater than
\* before.
C6_LastCounterMonotonic ==
    [][call'.op = "auth_okay" =>
          /\ \A n \in DOMAIN settings \cap DOMAIN settings' :
                last_counter_of(settings'[n]) >= last_counter_of(settings[n])
          /\ OtpSuccessStep(USER_AUTH_TOTP) =>
                /\ call'.username \in DOMAIN settings'
                /\ last_counter_of(settings'[call'.username])
                     > last_counter_of(settings[call'.username])]_vars

\* C7: for a TOTP user and a 6-character token, auth_okay returns 'range'
\* whenever totp_time is below the floor, and otherwise 'replay' when
\* totp_time, totp_time-1 and totp_time-2 are all at or below last_counter;
\* in both cases no candidate is matched.
C7_TotpRangeThenReplay ==
    (AuthOn(USER_AUTH_TOTP) /\ Len(call.token) = 6 /\ call.totp_time # <<>>) =>
        LET tv == call.totp_time[1]
            L  == last_counter_of(settings[call.username])
        IN  /\ tv < TOTP_FLOOR =>
                  (call.exc = "" /\ call.result = "range" /\ call.matched = <<>>)
            /\ (tv >= TOTP_FLOOR /\ tv <= L /\ tv - 1 <= L /\ tv - 2 <= L) =>
                  (call.exc = "" /\ call.result = "replay" /\ call.matched = <<>>)

C7_Witness ==
    /\ AuthOn(USER_AUTH_TOTP) /\ AuthReturned
    /\ call.result = "replay"
    /\ call.totp_time = <<last_counter_of(settings[call.username])>>
    /\ call.token = CodeOf(call.username, call.totp_time[1])

\* the counters a HOTP user with last_counter L accepts
HotpWindow(L) == ((L + 1)..(L + 9)) \cup (IF L = 0 THEN {0} ELSE {})

\* C8: for a HOTP user with last_counter L, auth_okay returns '' exactly when
\* the token is the code of a counter in L+1 .. L+9, or of counter 0 when L is
\* 0; any other 6-character token gets 'mismatch'.
C8_HotpForwardLeeway ==
    AuthOn(USER_AUTH_HOTP) =>
        LET L        == last_counter_of(settings[call.username])
            inWindow == \E c \in HotpWindow(L) : CodeOf(call.username, c) = call.token
        IN  /\ call.exc = ""
            /\ (call.result = "") <=> inWindow
            /\ (Len(call.token) = 6 /\ ~inWindow) => call.result = "mismatch"

C8_Witness ==
    /\ AuthOn(USER_AUTH_HOTP) /\ AuthSucceeded
    /\ last_counter_of(settings[call.username]) = 1
    /\ call.matched = <<10>>
    /\ call.token # CodeOf(call.username, 1)

\* the token is 6 ASCII digits
SixDigits(token) == Len(token) = 6 /\ \A i \in 1..6 : token[i] \in 48..57

\* the last call was auth_okay on a HOTP or TOTP user on file
AuthOnOtp == AuthOn(USER_AUTH_HOTP) \/ AuthOn(USER_AUTH_TOTP)

\* C9 as stated: for a HOTP or TOTP user every token that is not exactly 6
\* ASCII digits gets 'expect otp'.
C9_MalformedToken ==
    (AuthOnOtp /\ ~SixDigits(call.token)) => (call.exc = "" /\ call.result = "expect otp")

\* C9 as the code has it: for a HOTP or TOTP user 'expect otp' is returned
\* exactly for the tokens whose length is not 6; a token of length 6 holding
\* a non-digit goes on to the mode's checks and gets 'mismatch', 'range' or
\* 'replay'.
C9_TokenLengthCheck ==
    AuthOnOtp =>
        /\ Len(call.token) # 6 =>
              (call.exc = "" /\ call.result = "expect otp" /\ call.matched = <<>>)
        /\ Len(call.token) = 6 => call.result # "expect otp"
        /\ (Len(call.token) = 6 /\ ~SixDigits(call.token) /\ call.exc = "") =>
              call.result \in {"mismatch", "range", "replay"}

C9_Witness ==
    /\ AuthOn(USER_AUTH_HOTP) /\ AuthReturned
    /\ call.token = TOKEN_ALPHA
    /\ call.result = "mismatch"

\* C10: auth_okay returns 'unknown' for a username with no record, whatever
\* the token and the time; delete leaves the username without a record, and
\* a username gains a record only by a create that succeeds.
C10_UnknownUser ==
    /\ []((call.op = "auth_okay" /\ call.username \notin DOMAIN settings) =>
            (call.exc = "" /\ call.result = "unknown" /\ call.matched = <<>>))
    /\ [](call.op = "delete" => call.username \notin DOMAIN settings)
    /\ [][\A n \in NameInputs :
            (n \notin DOMAIN settings /\ n \in DOMAIN settings') =>
                (call'.op = "create" /\ call'.username = n /\ call'.exc = "")]_vars

C10_Witness ==
    /\ call.op = "auth_okay" /\ call.username \notin DOMAIN settings
    /\ call.result = "unknown"
    /\ call.token = TOKEN_SHORT
    /\ call.totp_time = <<TOTP_FLOOR - 1>>
    /\ NAME_MAX \in DOMAIN settings

\* the spec's name for what create raised
ErrorKind(exc) ==
    CASE exc \in {"AssertionError: badlen", "AssertionError: reserved"} -> "InvalidUsername"
      [] exc = "AssertionError: exists"   -> "DuplicateUser"
      [] exc = "AssertionError"           -> "InvalidSecretLength"
      [] exc = "AssertionError: too many" -> "TooManyUsers"
      [] OTHER                            -> ""

\* the reasons create(username, auth_mode, secret) has to refuse in the
\* directory u
RejectKinds(u, username, auth_mode, secret) ==
    (IF Len(username) <= 1 \/ Len(username) > MAX_USERNAME_LEN \/ username[1] = "_"
     THEN {"InvalidUsername"} ELSE {})
      \cup (IF username \in DOMAIN u THEN {"DuplicateUser"} ELSE {})
      \cup (IF secret # <<>>
               /\ (IF auth_mode = USER_AUTH_HMAC
                   THEN Len(secret) # 32
                   ELSE Len(secret) \notin {10, 20})
            THEN {"InvalidSecretLength"} ELSE {})
      \cup (IF username \notin DOMAIN u /\ Cardinality(DOMAIN u) >= 30
            THEN {"TooManyUsers"} ELSE {})

\* the step is a call of create in one of the three modes
CreateStep ==
    /\ call'.op = "create"
    /\ call'.auth_mode \in {USER_AUTH_TOTP, USER_AUTH_HOTP, USER_AUTH_HMAC}

\* C11: create refuses a username of length <= 1 or above MAX_USERNAME_LEN or
\* starting with '_' (InvalidUsername), a username already on file
\* (DuplicateUser), a supplied secret of the wrong length for the mode
\* (InvalidSecretLength) and a new user when 30 are on file (TooManyUsers):
\* the call raises, with the error of one of the reasons that apply, and a
\* call no reason applies to does not raise.
C11_CreateRejects ==
    [][CreateStep =>
          LET kinds == RejectKinds(settings, call'.username, call'.auth_mode, call'.secret)
          IN  IF kinds = {}
              THEN call'.exc = ""
              ELSE ErrorKind(call'.exc) \in kinds]_vars

C11_Witness ==
    /\ call.op = "create"
    /\ call.exc = "AssertionError: too many"
    /\ call.username = NAME_MAX
    /\ NAME_AL \in DOMAIN settings
    /\ Cardinality(DOMAIN settings) = MAX_NUMBER_USERS

\* C12: the directory never holds more than 30 users, and every username in
\* it has length 2..MAX_USERNAME_LEN, does not start with '_' and is the key
\* of exactly one record.
C12_DirectoryInvariants ==
    /\ Cardinality(DOMAIN settings) <= 30
    /\ \A n \in DOMAIN settings :
          /\ Len(n) \in 2..MAX_USERNAME_LEN
          /\ n[1] # "_"
          /\ Cardinality({k \in DOMAIN settings : k = n}) = 1
          /\ Len(settings[n]) = 3

C12_Witness ==
    /\ Cardinality(DOMAIN settings) = 30
    /\ NAME_MAX \in DOMAIN settings
    /\ call.op = "auth_okay"

\* C13: every stored secret decodes to 10 or 20 bytes for a HOTP or TOTP
\* record and to 32 bytes for an HMAC record, never to none; and a create
\* that picks the secret stores the 10 bytes its returned text decodes to,
\* for HMAC the 32-byte key derived from that text.
C13_StoredSecretLengths ==
    /\ [](\A n \in DOMAIN settings :
            LET b == b32decode(secret_of(settings[n]))
            IN  /\ Len(b) > 0
                /\ IF auth_mode_of(settings[n]) = USER_AUTH_HMAC
                   THEN Len(b) = 32
                   ELSE Len(b) \in {10, 20})
    /\ [][(call'.op = "create" /\ call'.exc = "" /\ call'.secret = <<>>) =>
            LET b == b32decode(secret_of(settings'[call'.username]))
                t == call'.picked
            IN  /\ Len(b32decode(t)) = 10
                /\ IF call'.auth_mode = USER_AUTH_HMAC
                   THEN b = calc_hmac_key(encode_ascii(t)) /\ Len(b) = 32
                   ELSE b = b32decode(t)]_vars

C13_Witness ==
    /\ call.op = "create" /\ call.exc = "" /\ call.secret = <<>>
    /\ call.auth_mode = USER_AUTH_HMAC
    /\ Len(b32decode(secret_of(settings[call.username]))) = 32
    /\ Len(call.picked) = 16

\* the step is a create that did not raise
CreateSucceeds == call'.op = "create" /\ call'.exc = ""

\* C14: a create that succeeds adds one record, for username, with the given
\* auth_mode, last_counter 0 and a supplied secret stored as given, leaves
\* the other records as they were, and returns '' when the secret was
\* supplied and a non-empty base-32 text when it was picked.
C14_CreateEffect ==
    [][CreateSucceeds =>
          LET n == call'.username
          IN  /\ n \notin DOMAIN settings
              /\ DOMAIN settings' = DOMAIN settings \cup {n}
              /\ \A k \in DOMAIN settings : settings'[k] = settings[k]
              /\ auth_mode_of(settings'[n]) = call'.auth_mode
              /\ last_counter_of(settings'[n]) = 0
              /\ IF call'.secret # <<>>
                 THEN /\ b32decode(secret_of(settings'[n])) = call'.secret
                      /\ call'.picked = <<>>
                 ELSE /\ call'.picked # <<>>
                      /\ \A i \in 1..Len(call'.picked) :
                            call'.picked[i] \in DOMAIN B32_INDEX]_vars

C14_Witness ==
    /\ call.op = "create" /\ call.exc = ""
    /\ call.username = NAME_AL /\ call.secret = SECRET_20
    /\ NAME_MAX \in DOMAIN settings
    /\ settings[NAME_AL] = <<USER_AUTH_TOTP, b32encode(SECRET_20), 0>>

\* C15: delete never raises; afterwards the username has no record, a
\* directory that did not hold it is unchanged, every other record is as it
\* was, and a second delete of the same name changes nothing more.
C15_DeleteEffect ==
    [][call'.op = "delete" =>
          LET n == call'.username
          IN  /\ call'.exc = ""
              /\ n \notin DOMAIN settings'
              /\ DOMAIN settings' = DOMAIN settings \ {n}
              /\ \A k \in DOMAIN settings' : settings'[k] = settings[k]
              /\ n \notin DOMAIN settings => settings' = settings
              /\ DictPop(settings', n) = settings']_vars

C15_Witness ==
    /\ call.op = "delete" /\ call.exc = ""
    /\ call.username = NAME_AL
    /\ DOMAIN settings = {NAME_MAX}
    /\ accepted[NAME_AL] = <<>>

\* C16: with each auth_okay call running as one step, two calls that present
\* the same HOTP or TOTP code for the same user do not both succeed: a call
\* that follows a success with the same username and token does not succeed
\* by matching the same counter again.
C16_SingleUseCode ==
    [][(/\ AuthSucceeded /\ call.matched # <<>>
        /\ call'.op = "auth_okay"
        /\ call'.username = call.username
        /\ call'.token = call.token)
          => ~(call'.exc = "" /\ call'.result = "" /\ call'.matched = call.matched)]_vars

\* C17: auth_okay changes nothing in the directory but the last_counter of
\* the user it checks: the usernames, every other record and that user's
\* auth_mode and secret stay, and a call that fails leaves it all unchanged.
C17_AuthFrame ==
    [][call'.op = "auth_okay" =>
          /\ DOMAIN settings' = DOMAIN settings
          /\ \A k \in DOMAIN settings :
                /\ k # call'.username => settings'[k] = settings[k]
                /\ auth_mode_of(settings'[k]) = auth_mode_of(settings[k])
                /\ secret_of(settings'[k]) = secret_of(settings[k])
          /\ (call'.exc # "" \/ call'.result # "") => settings' = settings]_vars

C17_Witness ==
    /\ AuthSucceeded /\ call.matched # <<>>
    /\ call.username = NAME_AL
    /\ NAME_MAX \in DOMAIN settings
    /\ auth_mode_of(settings[NAME_AL]) = USER_AUTH_TOTP

\* the candidates in the order the claim lists them: L+1 .. L+9, then 0 when
\* L is 0, for HOTP; time_value, time_value-1, time_value-2, those above L,
\* for TOTP
ListedOrder(auth_mode, L, totp_time) ==
    IF auth_mode = USER_AUTH_HOTP
    THEN <<L + 1, L + 2, L + 3, L + 4, L + 5, L + 6, L + 7, L + 8, L + 9>>
           \o (IF L = 0 THEN <<0>> ELSE <<>>)
    ELSE SelectSeq(<<totp_time[1], totp_time[1] - 1, totp_time[1] - 2>>,
                   LAMBDA c : c > L)

C19_RejectedCreateFrame ==
    /\ [][(call'.op = "create" /\ call'.exc # "") => settings' = settings]_vars
    /\ [][\A n \in DOMAIN settings :
            IF n \in DOMAIN settings'
            THEN /\ auth_mode_of(settings'[n]) = auth_mode_of(settings[n])
                 /\ secret_of(settings'[n]) = secret_of(settings[n])
                 /\ last_counter_of(settings'[n]) = 0
                       => last_counter_of(settings[n]) = 0
            ELSE call'.op = "delete" /\ call'.username = n]_vars
    /\ [][\A n \in DOMAIN settings' \ DOMAIN settings :
            /\ call'.op = "create" /\ call'.exc = "" /\ call'.username = n
            /\ last_counter_of(settings'[n]) = 0]_vars

C19_Witness ==
    /\ call.op = "create" /\ call.exc = "AssertionError: exists"
    /\ call.username = NAME_AL
    /\ call.secret = SECRET_20
    /\ last_counter_of(settings[NAME_AL]) = TOTP_FLOOR
    /\ secret_of(settings[NAME_AL]) = b32encode(SECRET_10)

\* time values to compare a HOTP call across: absent, 0, and those around
\* the epoch floor
TimeValues == TimeInputs \cup {<<0>>}

\* C20: for a HOTP user auth_okay does not look at totp_time: with the same
\* record, token and psbt_hash every time value, absent or below the floor
\* included, gives the outcome the call had and leaves the same directory,
\* and the outcome is never 'range' or 'replay'.
C20_HotpIgnoresTime ==
    AuthOn(USER_AUTH_HOTP) =>
        /\ call.exc = ""
        /\ call.result \notin {"range", "replay"}
        /\ \A t \in TimeValues :
              LET r == auth_outcome(call.username, call.token, t, call.psbt_hash)
              IN  /\ r.result = call.result /\ r.exc = call.exc
                  /\ r.matched = call.matched /\ r.u = call.u
                  /\ settings_after_auth(call.username, r) = settings

C20_Witness ==
    /\ AuthOn(USER_AUTH_HOTP) /\ AuthSucceeded
    /\ call.totp_time = <<TOTP_FLOOR - 1>>
    /\ last_counter_of(settings[call.username]) = 1
    /\ call.matched = <<9>>

====
